---- MODULE Spec2Model ----
(***************************************************************************)
(* Model of the Lviv outage dashboard: the App component (state data,      *)
(* loading, error; the mount effect with its initial fetch, periodic       *)
(* refresh and cleanup; the memoised derivations today, groupHasOutages,   *)
(* chartData, outageLines, transitionTicks), the outage utilities          *)
(* (getTodayData, normalizeStatusKey) and the fetch service                *)
(* (fetchRegionOutageJson).                                                *)
(*                                                                         *)
(* Representation.  A JavaScript value is a tagged tuple: <<"undefined">>, *)
(* <<"null">>, <<"string", s>>, <<"number", n>>, <<"boolean", b>>,         *)
(* <<"object", f>> with f a function from property names to values,        *)
(* <<"array", s>> with s the sequence of the elements, <<"function", name>> *)
(* for a built-in function.                                                *)
(* A time coordinate t (0, 0.5, ..., 24) is held in half-hours, as the     *)
(* integer 2*t (0, 1, ..., 48).  A formatted string such as "04:30-05:00"  *)
(* is the sequence of its characters.                                      *)
(***************************************************************************)
EXTENDS Integers, Sequences, FiniteSets, TLC

VARIABLES
    data,             \* useState(null): the stored snapshot
    loading,          \* useState(true)
    error,            \* useState(null)
    phase,            \* "created" (rendered, effect not run), "mounted", "unmounted",
                      \* "crashed" (unmounted by a render that threw)
    aborted,          \* controller.signal.aborted
    refreshActive,    \* the setInterval timer refreshId is armed
    requests,         \* the fetches issued, in issue order
    dataFrom,         \* index in requests of the fetch whose result setData stored (0: none)
    settled,          \* the indices of the fetches whose reaction ran, in that order
    dirty,            \* a state setter ran since the last render
    today,            \* useMemo: getTodayData(data)
    hasToday,         \* Boolean(today)
    groupHasOutages,  \* useMemo
    chartData,        \* useMemo
    outageLines,      \* useMemo
    transitionTicks,  \* useMemo
    banners           \* which of the loading / error / empty-state banners the render shows

vars == <<data, loading, error, phase, aborted, refreshActive, requests, dataFrom,
          settled, dirty, today, hasToday, groupHasOutages, chartData, outageLines,
          transitionTicks, banners>>

memos == <<today, hasToday, groupHasOutages, chartData, outageLines, transitionTicks, banners>>

-----------------------------------------------------------------------------
(* JavaScript values *)

Undefined == <<"undefined">>
Null == <<"null">>
Str(s) == <<"string", s>>
Num(n) == <<"number", n>>
Bool(b) == <<"boolean", b>>
Obj(f) == <<"object", f>>
Arr(s) == <<"array", s>>
Fn(name) == <<"function", name>>

\* ToBoolean: the falsy values among those modelled
IsFalsy(v) == \/ v = Undefined
              \/ v = Null
              \/ v = Str("")
              \/ v = Num(0)
              \/ v = Bool(FALSE)

\* the one-character strings read off the strings that snapshots hold
Letters ==
    {"a", "b", "c", "d", "e", "f", "i", "k", "m", "n", "o", "r", "s", "t", "u", "w", "y",
     "N", "O"}

\* the characters of the strings that snapshots hold
CharsOf(s) ==
    CASE s = "" -> <<>>
      [] s \in Letters -> <<s>>
      [] s = "yes" -> <<"y", "e", "s">>
      [] s = "no" -> <<"n", "o">>
      [] s = "maybe" -> <<"m", "a", "y", "b", "e">>
      [] s = "first" -> <<"f", "i", "r", "s", "t">>
      [] s = "second" -> <<"s", "e", "c", "o", "n", "d">>
      [] s = "NO" -> <<"N", "O">>
      [] s = "unknown" -> <<"u", "n", "k", "n", "o", "w", "n">>

\* the property names every object inherits from Object.prototype
ObjectPrototypeKeys ==
    {"constructor", "hasOwnProperty", "isPrototypeOf", "propertyIsEnumerable",
     "toLocaleString", "toString", "valueOf", "__defineGetter__", "__defineSetter__",
     "__lookupGetter__", "__lookupSetter__"}

\* the method names a string inherits from String.prototype
StringPrototypeKeys ==
    {"anchor", "at", "big", "blink", "bold", "charAt", "charCodeAt", "codePointAt",
     "concat", "endsWith", "fixed", "fontcolor", "fontsize", "includes", "indexOf",
     "isWellFormed", "italics", "lastIndexOf", "link", "localeCompare", "match",
     "matchAll", "normalize", "padEnd", "padStart", "repeat", "replace", "replaceAll",
     "search", "slice", "small", "split", "startsWith", "strike", "sub", "substr",
     "substring", "sup", "toLocaleLowerCase", "toLocaleUpperCase", "toLowerCase",
     "toUpperCase", "toWellFormed", "trim", "trimEnd", "trimLeft", "trimRight",
     "trimStart"}

\* the method names an array inherits from Array.prototype
ArrayPrototypeKeys ==
    {"at", "concat", "copyWithin", "entries", "every", "fill", "filter", "find",
     "findIndex", "findLast", "findLastIndex", "flat", "flatMap", "forEach", "includes",
     "indexOf", "join", "keys", "lastIndexOf", "map", "pop", "push", "reduce",
     "reduceRight", "reverse", "shift", "slice", "some", "sort", "splice", "toReversed",
     "toSorted", "toSpliced", "unshift", "values", "with"}

\* the method names a number inherits from Number.prototype
NumberPrototypeKeys == {"toExponential", "toFixed", "toPrecision"}

\* the method names a function inherits from Function.prototype
FunctionPrototypeKeys == {"apply", "bind", "call"}

\* the own method names of the prototype of a value made by the constructor ctor
OwnPrototypeKeys(ctor) ==
    IF ctor = "String" THEN StringPrototypeKeys
    ELSE IF ctor = "Array" THEN ArrayPrototypeKeys
    ELSE IF ctor = "Number" THEN NumberPrototypeKeys
    ELSE IF ctor = "Function" THEN FunctionPrototypeKeys
    ELSE {}

\* the function a prototype holds under the name k: String.prototype holds one
\* function under trimLeft and trimStart, and one under trimRight and trimEnd
PrototypeMethod(ctor, k) ==
    IF ctor = "String" /\ k = "trimLeft" THEN Fn("trimStart")
    ELSE IF ctor = "String" /\ k = "trimRight" THEN Fn("trimEnd")
    ELSE Fn(k)

\* a property found on the prototype chain of a value made by the constructor ctor
Inherited(ctor, k) ==
    IF k = "constructor" THEN Fn(ctor)
    ELSE IF k \in OwnPrototypeKeys(ctor) \cup ObjectPrototypeKeys THEN PrototypeMethod(ctor, k)
    ELSE IF k = "__proto__"
    THEN Obj([j \in OwnPrototypeKeys(ctor) \cup ObjectPrototypeKeys |->
                 IF j = "constructor" THEN Fn(ctor) ELSE PrototypeMethod(ctor, j)])
    ELSE Undefined

\* o?.[k]: undefined for null and undefined; an own property (of an object,
\* or an index or the length of an array or a string), else what the
\* prototype chain has
Prop(o, k) ==
    IF o[1] = "object"
    THEN IF k \in DOMAIN o[2] THEN o[2][k] ELSE Inherited("Object", k)
    ELSE IF o[1] = "array"
    THEN IF \E i \in 1..Len(o[2]) : ToString(i - 1) = k
         THEN o[2][CHOOSE i \in 1..Len(o[2]) : ToString(i - 1) = k]
         ELSE IF k = "length" THEN Num(Len(o[2]))
         ELSE Inherited("Array", k)
    ELSE IF o[1] = "string"
    THEN LET cs == CharsOf(o[2])
         IN  IF \E i \in 1..Len(cs) : ToString(i - 1) = k
             THEN Str(cs[CHOOSE i \in 1..Len(cs) : ToString(i - 1) = k])
             ELSE IF k = "length" THEN Num(Len(cs))
             ELSE Inherited("String", k)
    ELSE IF o[1] = "number" THEN Inherited("Number", k)
    ELSE IF o[1] = "boolean" THEN Inherited("Boolean", k)
    ELSE IF o[1] = "function"
    THEN IF k = "name" THEN Str(o[2]) ELSE Inherited("Function", k)
    ELSE Undefined

\* an exception thrown instead of a value
Thrown(name) == <<"throw", name>>

IsThrow(v) == v[1] = "throw"

RECURSIVE JsString(_)
\* String(v), as Str(s) or as the TypeError it throws.  An object of a JSON
\* document converts by Object.prototype.toString unless it has an own
\* toString property, which is not callable and makes the conversion throw; an
\* array is its elements joined by commas, null and undefined elements giving
\* the empty string.
JsString(v) ==
    IF v[1] = "string" THEN v
    ELSE IF v[1] = "number" THEN Str(ToString(v[2]))
    ELSE IF v[1] = "boolean" THEN Str(IF v[2] THEN "true" ELSE "false")
    ELSE IF v[1] = "undefined" THEN Str("undefined")
    ELSE IF v[1] = "null" THEN Str("null")
    ELSE IF v[1] = "object"
    THEN IF "toString" \in DOMAIN v[2] THEN Thrown("TypeError") ELSE Str("[object Object]")
    ELSE IF v[1] = "function" THEN Str("function " \o v[2] \o "() { [native code] }")
    ELSE LET element(i) == IF v[2][i] \in {Null, Undefined} THEN Str("")
                           ELSE JsString(v[2][i])
         IN  IF Len(v[2]) = 0 THEN Str("")
             ELSE IF Len(v[2]) = 1 THEN element(1)
             ELSE LET rest == JsString(Arr(Tail(v[2])))
                  IN  IF IsThrow(element(1)) THEN element(1)
                      ELSE IF IsThrow(rest) THEN rest
                      ELSE Str(element(1)[2] \o "," \o rest[2])

\* a ?? b
Coalesce(a, b) == IF a = Undefined \/ a = Null THEN b ELSE a

Range(s) == {s[i] : i \in DOMAIN s}

-----------------------------------------------------------------------------
(* utils/outage *)

STATUS_ORDER == <<Str("yes"), Str("maybe"), Str("no")>>

getTodayTimestamp(d) == Prop(Prop(d, "fact"), "today")

\* the entry of today, or the TypeError that String(ts) throws.  The optional
\* chain evaluates String(ts) only when data.fact.data is neither undefined nor
\* null; otherwise it yields undefined and the function returns null.
getTodayData(d) ==
    LET ts == getTodayTimestamp(d)
        days == Prop(Prop(d, "fact"), "data")
        key == JsString(ts)
    IN  IF IsFalsy(ts) THEN Null
        ELSE IF days = Undefined \/ days = Null THEN Null
        ELSE IF IsThrow(key) THEN key
        ELSE Coalesce(Prop(days, key[2]), Null)

\* data?.preset?.time_type?.[statusKey] ?? statusKey, for a string statusKey
getStatusText(d, statusKey) ==
    Coalesce(Prop(Prop(Prop(d, "preset"), "time_type"), statusKey[2]), statusKey)

normalizeStatusKey(statusKey) ==
    IF IsFalsy(statusKey) THEN Str("maybe")
    ELSE IF statusKey \in Range(STATUS_ORDER) THEN statusKey
    ELSE IF statusKey = Str("first") \/ statusKey = Str("second") THEN statusKey
    ELSE Str("maybe")

-----------------------------------------------------------------------------
(* App: constants and pure helpers *)

Hours == 24

GROUPS == <<"GPV1.1", "GPV2.1", "GPV5.1">>

DigitChars == <<"0", "1", "2", "3", "4", "5", "6", "7", "8", "9">>

\* String(v).padStart(2, '0') for 0 <= v < 100, as characters
pad2(v) == <<DigitChars[(v \div 10) + 1], DigitChars[(v % 10) + 1]>>

\* t is in half-hours: Math.floor(t) is t \div 2, and t % 1 === 0.5 is t % 2 = 1
formatHalfHour(t) ==
    LET hour == t \div 2
        minutes == IF t % 2 = 1 THEN 30 ELSE 0
    IN  pad2(hour) \o <<":">> \o pad2(minutes)

formatHalfRange(startT) ==
    LET endT == startT + 1
    IN  formatHalfHour(startT) \o <<"-">> \o formatHalfHour(endT)

\* expandHourToHalves with the halves of 'first' and 'second' exchanged
expandHourToHalvesSwapped(hourStatusKey) ==
    LET k == normalizeStatusKey(hourStatusKey)
    IN  IF k = Str("first") THEN <<Str("yes"), Str("no")>>
        ELSE IF k = Str("second") THEN <<Str("no"), Str("yes")>>
        ELSE IF k = Str("yes") THEN <<Str("yes"), Str("yes")>>
        ELSE IF k = Str("no") THEN <<Str("no"), Str("no")>>
        ELSE <<Str("maybe"), Str("maybe")>>

expandHourToHalves(hourStatusKey) ==
    LET k == normalizeStatusKey(hourStatusKey)
    IN  IF k = Str("first") THEN <<Str("no"), Str("yes")>>
        ELSE IF k = Str("second") THEN <<Str("yes"), Str("no")>>
        ELSE IF k = Str("yes") THEN <<Str("yes"), Str("yes")>>
        ELSE IF k = Str("no") THEN <<Str("no"), Str("no")>>
        ELSE IF k = Str("maybe") THEN <<Str("maybe"), Str("maybe")>>
        ELSE <<Str("maybe"), Str("maybe")>>

\* isOutageKey that counts every key but 'yes' as an outage
isOutageKeyNotYes(statusKey) ==
    LET k == normalizeStatusKey(statusKey)
    IN  k # Str("yes")

isOutageKey(statusKey) ==
    LET k == normalizeStatusKey(statusKey)
    IN  k = Str("no") \/ k = Str("first") \/ k = Str("second")

statusToLevel(statusKey) ==
    LET k == normalizeStatusKey(statusKey)
    IN  IF k = Str("yes") THEN 2
        ELSE IF k = Str("maybe") THEN 1
        ELSE IF k = Str("no") THEN 0
        ELSE 1

isNoAtHour(statusKey) ==
    LET k == normalizeStatusKey(statusKey)
    IN  k = Str("no")

isMaybeKey(statusKey) ==
    LET k == normalizeStatusKey(statusKey)
    IN  k = Str("maybe")

-----------------------------------------------------------------------------
(* App: interval extraction.  pickKey / pickBool are the row field the     *)
(* caller's accessor reads ((r) => r.homeKey is "homeKey").  startT is     *)
(* Null or Num(t).                                                         *)

\* startT of a loop body that never resets it: the t of the first row passing the test
StartTAfterNoReset(rows, on, i) ==
    IF \A j \in 1..i : ~on[j] THEN Null
    ELSE LET first == CHOOSE j \in 1..i : on[j] /\ \A x \in 1..(j - 1) : ~on[x]
         IN  Num(rows[first].t)

\* startT once the loop body has run on rows 1..i, on[j] being the body's test
\* on row j: the body sets startT to r.t on a passing row while startT is null
\* and sets it back to null on a failing row, so it is null after a failing
\* row and the t of the first row of the current run after a passing one
StartTAfter(rows, on, i) ==
    IF i = 0 \/ ~on[i] THEN Null
    ELSE LET first == CHOOSE j \in 1..i :
                          /\ \A x \in j..i : on[x]
                          /\ (j = 1 \/ ~on[j - 1])
         IN  Num(rows[first].t)

\* the for-of loop of both extractors; yields <<intervals, startT>>: iteration
\* i pushes [startT, r.t] when row i fails the test while startT is not null
ScanRows(rows, on) ==
    LET pushing == SelectSeq([i \in 1..Len(rows) |-> i],
                             LAMBDA i : ~on[i] /\ StartTAfter(rows, on, i - 1) # Null)
    IN  << [k \in 1..Len(pushing) |->
               <<StartTAfter(rows, on, pushing[k] - 1)[2], rows[pushing[k]].t>>],
           StartTAfter(rows, on, Len(rows)) >>

\* the loop of getNoIntervalsFromRows: const isNo = isNoAtHour(pickKey(r))
ScanNoRows(rows, pickKey) ==
    ScanRows(rows, [i \in 1..Len(rows) |-> isNoAtHour(rows[i][pickKey])])

\* the loop of getBoolIntervalsFromRows: const on = Boolean(pickBool(r))
ScanBoolRows(rows, pickBool) ==
    ScanRows(rows, [i \in 1..Len(rows) |-> rows[i][pickBool]])

\* the closing push with the last row's t (23.5) for the end of the day
CloseOpenIntervalAtLastRow(scan) ==
    IF scan[2] # Null THEN Append(scan[1], <<scan[2][2], 2 * Hours - 1>>) ELSE scan[1]

\* if (startT != null) intervals.push([startT, 24])
CloseOpenInterval(scan) ==
    IF scan[2] # Null THEN Append(scan[1], <<scan[2][2], 2 * Hours>>) ELSE scan[1]

\* .filter(([a, b]) => b > a).map(([a, b]) => `${formatHalfHour(a)}-${formatHalfHour(b)}`)
FormatIntervals(intervals) ==
    LET kept == SelectSeq(intervals, LAMBDA iv : iv[2] > iv[1])
    IN  [i \in 1..Len(kept) |-> formatHalfHour(kept[i][1]) \o <<"-">> \o formatHalfHour(kept[i][2])]

getNoIntervalsFromRows(rows, pickKey) ==
    IF Len(rows) = 0 THEN <<>>
    ELSE FormatIntervals(CloseOpenInterval(ScanNoRows(rows, pickKey)))

getBoolIntervalsFromRows(rows, pickBool) ==
    IF Len(rows) = 0 THEN <<>>
    ELSE FormatIntervals(CloseOpenInterval(ScanBoolRows(rows, pickBool)))

-----------------------------------------------------------------------------
(* App: the memoised derivations *)

RECURSIVE HasOutageFrom(_, _)
\* the inner loop of groupHasOutages from hourIndex on, with its break
HasOutageFrom(group, hourIndex) ==
    IF hourIndex > Hours THEN FALSE
    ELSE LET ab == expandHourToHalves(Prop(group, ToString(hourIndex)))
         IN  IF isOutageKey(ab[1]) \/ isOutageKey(ab[2]) THEN TRUE
             ELSE HasOutageFrom(group, hourIndex + 1)

GroupHasOutages(td) ==
    IF IsFalsy(td) THEN [k \in Range(GROUPS) |-> FALSE]
    ELSE [k \in Range(GROUPS) |-> HasOutageFrom(Prop(td, k), 1)]

\* a pushed row whose overlapNo is the conjunction over all three groups
RowOverlapAllGroups(t, k) ==
    [t |-> t, rangeLabel |-> formatHalfRange(t),
     homeKey |-> k[1], medicKey |-> k[2], reserveKey |-> k[3],
     home |-> statusToLevel(k[1]), medic |-> statusToLevel(k[2]),
     reserve |-> statusToLevel(k[3]),
     overlapNo |-> (isNoAtHour(k[1]) /\ isNoAtHour(k[2]) /\ isNoAtHour(k[3]))]

\* one pushed row: time t, the keys k = <<homeKey, medicKey, reserveKey>>
Row(t, k) ==
    [t |-> t, rangeLabel |-> formatHalfRange(t),
     homeKey |-> k[1], medicKey |-> k[2], reserveKey |-> k[3],
     home |-> statusToLevel(k[1]), medic |-> statusToLevel(k[2]),
     reserve |-> statusToLevel(k[3]),
     overlapNo |-> (isNoAtHour(k[2]) /\ isNoAtHour(k[3]))]

\* the two rows pushed for one hourIndex
HourRows(home, medic, reserve, hourIndex) ==
    LET baseT == 2 * (hourIndex - 1)
        homeAB == expandHourToHalves(Prop(home, ToString(hourIndex)))
        medicAB == expandHourToHalves(Prop(medic, ToString(hourIndex)))
        reserveAB == expandHourToHalves(Prop(reserve, ToString(hourIndex)))
        t1 == baseT
        t2 == baseT + 1
    IN  << Row(t1, <<homeAB[1], medicAB[1], reserveAB[1]>>),
           Row(t2, <<homeAB[2], medicAB[2], reserveAB[2]>>) >>

\* rows after the loop: iteration hourIndex pushes rows 2 * hourIndex - 1 and 2 * hourIndex
ChartRows(home, medic, reserve) ==
    LET pushed == [hourIndex \in 1..Hours |-> HourRows(home, medic, reserve, hourIndex)]
    IN  [i \in 1..(2 * Hours) |-> pushed[(i + 1) \div 2][2 - (i % 2)]]

ChartData(td) ==
    IF IsFalsy(td) THEN <<>>
    ELSE LET home == Coalesce(Prop(td, GROUPS[1]), Null)
             medic == Coalesce(Prop(td, GROUPS[2]), Null)
             reserve == Coalesce(Prop(td, GROUPS[3]), Null)
         IN  ChartRows(home, medic, reserve)

OutageLines(cd) ==
    IF Len(cd) = 0
    THEN [home |-> <<>>, medic |-> <<>>, reserve |-> <<>>, overlap |-> <<>>]
    ELSE [home |-> getNoIntervalsFromRows(cd, "homeKey"),
          medic |-> getNoIntervalsFromRows(cd, "medicKey"),
          reserve |-> getNoIntervalsFromRows(cd, "reserveKey"),
          overlap |-> getBoolIntervalsFromRows(cd, "overlapNo")]

\* the loop iteration without its reserveKey test
TickAddedNoReserve(prev, curr) ==
    \/ prev.medicKey # curr.medicKey
    \/ prev.overlapNo # curr.overlapNo

\* the tests of the loop iteration that compares rows i - 1 and i
TickAdded(prev, curr) ==
    \/ prev.medicKey # curr.medicKey
    \/ prev.reserveKey # curr.reserveKey
    \/ prev.overlapNo # curr.overlapNo

\* the Set after the loop: new Set([0, 24]) and every curr.t added
TickSet(cd) ==
    {0, 2 * Hours} \cup {cd[i].t : i \in {j \in 2..Len(cd) : TickAdded(cd[j - 1], cd[j])}}

\* Array.from(set).sort((a, b) => a - b)
SortAscending(set) ==
    [i \in 1..Cardinality(set) |->
        CHOOSE x \in set : Cardinality({y \in set : y - x < 0}) = i - 1]

TransitionTicks(cd) ==
    IF Len(cd) = 0 THEN <<0, 2 * Hours>>
    ELSE SortAscending(TickSet(cd))

\* the loading, error and empty-state banners of the returned JSX
Banners(ld, err, has) ==
    [loading |-> ld, error |-> ~IsFalsy(err), empty |-> ~ld /\ IsFalsy(err) /\ ~has]

-----------------------------------------------------------------------------
(* services/outageService *)

AbortError == [name |-> "AbortError", message |-> Str("This operation was aborted")]

\* what res.json() throws on a body that is not JSON
SyntaxError ==
    [name |-> "SyntaxError",
     message |-> Str("Unexpected token '<', \"<html>\" is not valid JSON")]

\* `Failed to load outage data: ${res.status} ${res.statusText}`
HttpErrorMessage(status, statusText) ==
    Str("Failed to load outage data: " \o ToString(status) \o " " \o statusText)

\* fetchRegionOutageJson that does not pass `signal` to fetch
fetchIgnoringSignal(resp, signalAborted) ==
    IF resp.type = "networkError"
    THEN [status |-> "rejected",
          reason |-> [name |-> "TypeError", message |-> Str("Failed to fetch")],
          value |-> Undefined]
    ELSE IF ~resp.ok
    THEN [status |-> "rejected",
          reason |-> [name |-> "Error",
                      message |-> HttpErrorMessage(resp.status, resp.statusText)],
          value |-> Undefined]
    ELSE IF ~resp.parses
    THEN [status |-> "rejected", reason |-> SyntaxError, value |-> Undefined]
    ELSE [status |-> "fulfilled", reason |-> Undefined, value |-> resp.json]

\* What the promise of a call settles with, given what the network does (resp)
\* and whether the signal passed to fetch is aborted by the time it settles.
fetchRegionOutageJson(resp, signalAborted) ==
    IF signalAborted THEN [status |-> "rejected", reason |-> AbortError, value |-> Undefined]
    ELSE IF resp.type = "networkError"
    THEN [status |-> "rejected",
          reason |-> [name |-> "TypeError", message |-> Str("Failed to fetch")],
          value |-> Undefined]
    ELSE IF ~resp.ok
    THEN [status |-> "rejected",
          reason |-> [name |-> "Error",
                      message |-> HttpErrorMessage(resp.status, resp.statusText)],
          value |-> Undefined]
    ELSE IF ~resp.parses
    THEN [status |-> "rejected", reason |-> SyntaxError, value |-> Undefined]
    ELSE [status |-> "fulfilled", reason |-> Undefined, value |-> resp.json]

-----------------------------------------------------------------------------
(* Inputs: the schedule files the remote source may publish *)

\* fact.today of the published snapshots, and its key in fact.data
TodayTimestamp == Num(1762000)

TodayKey == JsString(TodayTimestamp)[2]

\* String(hourIndex) and its inverse on the hour keys "1" .. "24"
HourKeys == {ToString(h) : h \in 1..Hours}

HourOfKey == [k \in HourKeys |-> CHOOSE h \in 1..Hours : ToString(h) = k]

\* A group's schedule: bg at every hour but hours pos and pos + 1, which hold a and b;
\* an hour whose value is undefined has no key in the object.
GroupSchedule(bg, pos, a, b) ==
    LET val(h) == IF h = pos THEN a ELSE IF h = pos + 1 THEN b ELSE bg
    IN  Obj([k \in {x \in HourKeys : val(HourOfKey[x]) # Undefined} |-> val(HourOfKey[k])])

\* fact.data[today]: the groups of the day; an undefined group has no key
TodayEntry(home, medic, reserve) ==
    LET val(k) == IF k = GROUPS[1] THEN home ELSE IF k = GROUPS[2] THEN medic ELSE reserve
    IN  Obj([k \in {g \in Range(GROUPS) : val(g) # Undefined} |-> val(k)])

Snapshot(ts, entry) ==
    Obj([k \in {"fact"} |->
          Obj([j \in {"today", "data"} |->
                IF j = "today" THEN ts
                ELSE Obj([x \in {TodayKey} |-> entry])])])

\* snapshots without a usable today entry; two of them have a fact.today that
\* does not convert to a string and no fact.data to look it up in
NoTodaySnapshots ==
    { Null,
      Obj([k \in {"preset"} |-> Null]),
      Obj([k \in {"fact"} |-> Obj([j \in {"data"} |-> Obj([x \in {TodayKey} |->
                                      TodayEntry(Undefined, Undefined, Undefined)])])]),
      Snapshot(Num(0), TodayEntry(Undefined, Undefined, Undefined)),
      Obj([k \in {"fact"} |-> Obj([j \in {"today"} |-> TodayTimestamp])]),
      Obj([k \in {"fact"} |-> Obj([j \in {"today"} |-> Obj([x \in {"toString"} |-> Str("x")])])]),
      Obj([k \in {"fact"} |-> Obj([j \in {"today", "data"} |->
                                      IF j = "today"
                                      THEN Arr(<<Num(1), Obj([x \in {"toString"} |-> Null])>>)
                                      ELSE Null])]),
      Obj([k \in {"fact"} |-> Obj([j \in {"today", "data"} |->
                                      IF j = "today" THEN Num(TodayTimestamp[2] + 1)
                                      ELSE Obj([x \in {TodayKey} |->
                                                  TodayEntry(Undefined, Undefined, Undefined)])])]) }

StatusStrings == {Str("yes"), Str("no"), Str("maybe"), Str("first"), Str("second")}

\* raw hourly values: the five keys, other strings, non-strings, falsy values
RawValues ==
    StatusStrings \cup {Str(""), Str("NO"), Str("unknown"), Num(0), Num(1), Null,
                        Bool(TRUE), Undefined}

\* a group's hour in the snapshots that vary one hour of every group
SingleValues == StatusStrings \cup {Undefined}

\* a group's two adjacent hours in the snapshots that vary them for medic and reserve
PairValues == {Str("yes"), Str("no"), Str("first"), Str("second"), Undefined}

\* the first hour of the varied window: start of day, midday, end of day
WindowStarts == {1, 12, 23}

\* the value of every hour outside the window
Backgrounds == {Str("yes"), Str("no"), Undefined}

\* marks a group that the day's entry does not have
Missing == <<"missing">>

HomeGroup(bg, pos, a) ==
    IF a = Missing THEN Undefined ELSE GroupSchedule(bg, pos, a, bg)

PairGroup(bg, pos, a, b) ==
    IF a = Missing THEN Undefined ELSE GroupSchedule(bg, pos, a, b)

\* a snapshot with a today entry, from the values of its groups' window hours
TodaySnapshot(bg, pos, ha, ma, mb, ra, rb) ==
    Snapshot(TodayTimestamp, TodayEntry(HomeGroup(bg, pos, ha),
                                      PairGroup(bg, pos, ma, mb),
                                      PairGroup(bg, pos, ra, rb)))

\* a snapshot with every hour of the three groups
FullSnapshot ==
    Snapshot(TodayTimestamp, TodayEntry(GroupSchedule(Str("yes"), 5, Str("first"), Str("yes")),
                                      GroupSchedule(Str("yes"), 3, Str("no"), Str("second")),
                                      GroupSchedule(Str("yes"), 4, Str("no"), Str("no"))))

\* the snapshot with one more top-level field
WithField(snapshot, name, value) ==
    Obj([k \in DOMAIN snapshot[2] \cup {name} |->
          IF k = name THEN value ELSE snapshot[2][k]])

\* an object that does not convert to a string
Unprintable == Obj([x \in {"toString"} |-> Num(1)])

\* snapshots whose today entry, or whose group, is read off a string, off an
\* array or off a prototype, or whose fact.today is an object or an array, or
\* whose lastUpdated and status texts are objects the view never converts or
\* converts without an error
OddSnapshots ==
    { WithField(WithField(FullSnapshot, "lastUpdated", Obj([x \in {} |-> Null])),
                "preset",
                Obj([k \in {"time_type"} |->
                      Obj([x \in {"yes", "first", "maybe"} |->
                            IF x = "yes" THEN Str("on") ELSE Unprintable])])),
      Obj([k \in {"fact"} |-> Obj([j \in {"today", "data"} |->
                                      IF j = "today" THEN Str("1") ELSE Str("no")])]),
      Obj([k \in {"fact"} |-> Obj([j \in {"today", "data"} |->
                                      IF j = "today" THEN Str("constructor")
                                      ELSE Obj([x \in {} |-> Null])])]),
      Obj([k \in {"fact"} |-> Obj([j \in {"today", "data"} |->
                                      IF j = "today" THEN Str("length") ELSE Str("")])]),
      Snapshot(TodayTimestamp, TodayEntry(Str("no"), Str("second"),
                                        GroupSchedule(Str("no"), 2, Str("no"), Str("no")))),
      Obj([k \in {"fact"} |-> Obj([j \in {"today", "data"} |->
                                      IF j = "today" THEN Str("map") ELSE Arr(<<>>)])]),
      Obj([k \in {"fact"} |-> Obj([j \in {"today", "data"} |->
                                      IF j = "today" THEN Str("1")
                                      ELSE Arr(<<Null, TodayEntry(Undefined, Undefined,
                                                     Arr(<<Str("yes"), Str("no")>>))>>)])]),
      Obj([k \in {"fact"} |-> Obj([j \in {"today", "data"} |->
                                      IF j = "today" THEN Obj([x \in {} |-> Null])
                                      ELSE Obj([x \in {"[object Object]"} |->
                                                  TodayEntry(GroupSchedule(Str("yes"), 1,
                                                                           Str("no"), Str("yes")),
                                                             Undefined, Undefined)])])]),
      Obj([k \in {"fact"} |-> Obj([j \in {"today", "data"} |->
                                      IF j = "today" THEN Arr(<<Str("yes"), Null, Num(2)>>)
                                      ELSE Obj([x \in {"yes,,2"} |->
                                                  TodayEntry(Undefined,
                                                             Arr(<<Str("no"), Str("no"),
                                                                   Str("first")>>),
                                                             Str("no"))])])]) }

\* snapshots whose render throws: fact.today does not convert to a string (an
\* object with a toString property, an array that holds one) and is looked up
\* in fact.data, or lastUpdated does not convert, or the text of a status that
\* the chart shows does not convert
ThrowingSnapshots ==
    { WithField(FullSnapshot, "lastUpdated", Obj([x \in {"toString"} |-> Str("x")])),
      WithField(FullSnapshot, "lastUpdated", Arr(<<Num(1), Unprintable>>)),
      WithField(FullSnapshot, "preset",
                Obj([k \in {"time_type"} |-> Obj([x \in {"yes"} |-> Unprintable])])),
      Obj([k \in {"fact"} |-> Obj([j \in {"today", "data"} |->
                                      IF j = "today" THEN Obj([x \in {"toString"} |-> Str("x")])
                                      ELSE Obj([x \in {"[object Object]"} |->
                                                  TodayEntry(GroupSchedule(Str("no"), 1,
                                                                           Str("no"), Str("no")),
                                                             Undefined, Undefined)])])]),
      Obj([k \in {"fact"} |-> Obj([j \in {"today", "data"} |->
                                      IF j = "today"
                                      THEN Arr(<<Num(1), Obj([x \in {"toString"} |-> Null])>>)
                                      ELSE Obj([x \in {} |-> Null])])]) }

\* the bodies served while the view is mounted
Payloads ==
    { Null,
      CHOOSE d \in ThrowingSnapshots : getTodayTimestamp(d)[1] = "object",
      Snapshot(Undefined, TodayEntry(Undefined, Undefined, Undefined)),
      FullSnapshot }

\* res.status and res.statusText of the responses that are not ok; HTTP/2
\* responses carry no reason phrase
ErrorStatuses == {<<404, "">>, <<503, "Service Unavailable">>}

\* what the network does with a request: a 200 with a JSON body, a 200 whose
\* body is not JSON, a status that is not ok, or no response at all
Responses ==
    {[type |-> "response", ok |-> TRUE, status |-> 200, statusText |-> "OK",
      parses |-> TRUE, json |-> j] : j \in Payloads}
    \cup {[type |-> "response", ok |-> TRUE, status |-> 200, statusText |-> "OK",
           parses |-> FALSE, json |-> Undefined]}
    \cup {[type |-> "response", ok |-> FALSE, status |-> st[1], statusText |-> st[2],
           parses |-> FALSE, json |-> Undefined] : st \in ErrorStatuses}
    \cup {[type |-> "networkError", ok |-> FALSE, status |-> 0, statusText |-> "",
           parses |-> FALSE, json |-> Undefined]}

MaxRefreshes == 2

-----------------------------------------------------------------------------
(* App: state, effect and render *)

RenderedFrom(d, ld, err) ==
    /\ today' = getTodayData(d)
    /\ hasToday' = ~IsFalsy(today')
    /\ groupHasOutages' = GroupHasOutages(today')
    /\ chartData' = ChartData(today')
    /\ outageLines' = OutageLines(chartData')
    /\ transitionTicks' = TransitionTicks(chartData')
    /\ banners' = Banners(ld, err, hasToday')

\* formatLocalKyiv(iso) throws: for a truthy iso that does not convert to a
\* primitive, new Date(iso) throws a TypeError, and String(iso) in the catch
\* block throws it again.  Any other failure of the formatting is caught and
\* String(iso) is returned.
formatLocalKyivThrows(iso) == ~IsFalsy(iso) /\ IsThrow(JsString(iso))

\* a title attribute of the status strip throws: the template literal converts
\* getStatusText(data, key) to a string for the key of every group in every row
TitleThrows(d, cd) ==
    \E i \in DOMAIN cd :
        \E field \in {"homeKey", "medicKey", "reserveKey"} :
            IsThrow(JsString(getStatusText(d, cd[i][field])))

\* the component function throws while it runs: in getTodayData, in the
\* 'last updated' text or in a title of the status strip.  What React does with
\* the returned elements is not part of the component function.
RenderThrows(d) ==
    LET td == getTodayData(d)
    IN  \/ IsThrow(td)
        \/ formatLocalKyivThrows(Prop(d, "lastUpdated"))
        \/ TitleThrows(d, ChartData(td))

\* the promise of a call has not settled, or its reaction has already run
NoOutcome == [status |-> "none", reason |-> Undefined, value |-> Undefined]

\* a reaction is queued as a microtask: it runs before any timer, response,
\* render or unmount
ReactionQueued == \E i \in DOMAIN requests : requests[i].arrived # NoOutcome

\* the component function body: the memos and the JSX recomputed from the
\* state.  When the function throws, no memo and no JSX is produced, and React
\* unmounts the component, which runs the effect cleanup.
Render ==
    /\ phase \in {"created", "mounted"}
    /\ dirty
    /\ ~ReactionQueued
    /\ IF RenderThrows(data)
       THEN /\ phase' = "crashed"
            /\ refreshActive' = FALSE
            /\ aborted' = TRUE
            /\ UNCHANGED <<dirty, memos>>
       ELSE /\ RenderedFrom(data, loading, error)
            /\ dirty' = FALSE
            /\ UNCHANGED <<phase, aborted, refreshActive>>
    /\ UNCHANGED <<data, loading, error, requests, dataFrom, settled>>

\* a call of fetchRegionOutageJson: status and reason tell how its reaction
\* ended, arrived is what its promise settled with while the reaction has not run
NewRequest(kind) ==
    [kind |-> kind, status |-> "pending", reason |-> "none", arrived |-> NoOutcome]

Settled(req, outcome) ==
    [req EXCEPT !.status = outcome.status,
                !.reason = IF outcome.status = "rejected" THEN outcome.reason.name ELSE "none",
                !.arrived = NoOutcome]

\* the effect body: the controller, the async initial load up to its await, setInterval
Mount ==
    /\ phase = "created"
    /\ phase' = "mounted"
    /\ aborted' = FALSE
    /\ loading' = TRUE
    /\ error' = Null
    /\ requests' = Append(requests, NewRequest("initial"))
    /\ refreshActive' = TRUE
    /\ UNCHANGED <<data, dataFrom, settled, dirty, memos>>

\* try { setData(json) } of the initial load
DataAfterInitial(outcome, d) ==
    IF outcome.status = "fulfilled" THEN outcome.value ELSE d

\* the catch of the initial load without its AbortError test
ErrorAfterInitialAnyReason(outcome, err) ==
    IF outcome.status = "rejected"
    THEN IF IsFalsy(outcome.reason.message) THEN Str("Failed to load data")
         ELSE outcome.reason.message
    ELSE err

\* catch (e) { if (e?.name !== 'AbortError') setError(e?.message || 'Failed to load data') }
ErrorAfterInitial(outcome, err) ==
    IF outcome.status = "rejected" /\ outcome.reason.name # "AbortError"
    THEN IF IsFalsy(outcome.reason.message) THEN Str("Failed to load data")
         ELSE outcome.reason.message
    ELSE err

\* an initial load that clears loading at the end of its try block only
LoadingAfterInitialOnSuccess(outcome, ld) ==
    IF outcome.status = "fulfilled" THEN FALSE ELSE ld

\* finally { setLoading(false) }
LoadingAfterInitial(outcome, ld) == FALSE

\* the promise of a call settles; its reaction (InitialSettle, RefreshSettle)
\* is queued as a microtask; the signal is read here
PromiseSettle ==
    /\ ~ReactionQueued
    /\ \E i \in 1..Len(requests) :
         /\ requests[i].status = "pending"
         /\ requests[i].arrived = NoOutcome
         /\ \E resp \in Responses :
              requests' = [requests EXCEPT ![i].arrived = fetchRegionOutageJson(resp, aborted)]
    /\ UNCHANGED <<data, loading, error, phase, aborted, refreshActive, dataFrom, settled,
                   dirty, memos>>

\* the initial load after its await: try / catch / finally
InitialSettle ==
    /\ Len(requests) >= 1
    /\ requests[1].status = "pending"
    /\ requests[1].arrived # NoOutcome
    /\ LET outcome == requests[1].arrived
       IN  /\ data' = DataAfterInitial(outcome, data)
           /\ dataFrom' = IF outcome.status = "fulfilled" THEN 1 ELSE dataFrom
           /\ error' = ErrorAfterInitial(outcome, error)
           /\ loading' = LoadingAfterInitial(outcome, loading)
           /\ requests' = [requests EXCEPT ![1] = Settled(@, outcome)]
    /\ settled' = Append(settled, 1)
    /\ dirty' = TRUE
    /\ UNCHANGED <<phase, aborted, refreshActive, memos>>

\* the setInterval callback: one more fetch on the same signal
RefreshTick ==
    /\ refreshActive
    /\ ~ReactionQueued
    /\ Len(requests) < 1 + MaxRefreshes
    /\ requests' = Append(requests, NewRequest("refresh"))
    /\ UNCHANGED <<data, loading, error, phase, aborted, refreshActive, dataFrom, settled,
                   dirty, memos>>

\* a refresh that clears the snapshot when it fails: .catch(() => setData(null))
DataAfterRefreshClearing(outcome, d) ==
    IF outcome.status = "fulfilled" THEN outcome.value
    ELSE IF outcome.reason.name # "AbortError" THEN Null
    ELSE d

\* .then(setData)
DataAfterRefresh(outcome, d) ==
    IF outcome.status = "fulfilled" THEN outcome.value ELSE d

\* .catch(() => {})
ErrorAfterRefresh(outcome, err) == err

\* the reactions of a refresh fetch: .then(setData).catch(() => {})
RefreshSettle ==
    \E i \in 2..Len(requests) :
      /\ requests[i].status = "pending"
      /\ requests[i].arrived # NoOutcome
      /\ LET outcome == requests[i].arrived
         IN  /\ data' = DataAfterRefresh(outcome, data)
             /\ dataFrom' = IF outcome.status = "fulfilled" THEN i ELSE dataFrom
             /\ error' = ErrorAfterRefresh(outcome, error)
             /\ dirty' = (dirty \/ outcome.status = "fulfilled")
             /\ requests' = [requests EXCEPT ![i] = Settled(@, outcome)]
      /\ settled' = Append(settled, i)
      /\ UNCHANGED <<loading, phase, aborted, refreshActive, memos>>

\* the effect cleanup: clearInterval(refreshId); controller.abort()
Cleanup ==
    /\ phase = "mounted"
    /\ ~ReactionQueued
    /\ phase' = "unmounted"
    /\ refreshActive' = FALSE
    /\ aborted' = TRUE
    /\ UNCHANGED <<data, loading, error, requests, dataFrom, settled, dirty, memos>>

\* after construction: the useState initial values and the first render
Init ==
    /\ data = Null
    /\ loading = TRUE
    /\ error = Null
    /\ phase = "created"
    /\ aborted = FALSE
    /\ refreshActive = FALSE
    /\ requests = <<>>
    /\ dataFrom = 0
    /\ settled = <<>>
    /\ dirty = FALSE
    /\ today = getTodayData(Null)
    /\ hasToday = FALSE
    /\ groupHasOutages = GroupHasOutages(Null)
    /\ chartData = ChartData(Null)
    /\ outageLines = OutageLines(<<>>)
    /\ transitionTicks = TransitionTicks(<<>>)
    /\ banners = Banners(TRUE, Null, FALSE)

Next ==
    Mount \/ PromiseSettle \/ InitialSettle \/ RefreshTick \/ RefreshSettle \/ Cleanup \/ Render

Spec == Init /\ [][Next]_vars

\* the promise of the initial fetch settles
InitialPromiseSettle ==
    /\ Len(requests) >= 1
    /\ requests[1].arrived = NoOutcome
    /\ PromiseSettle
    /\ requests'[1].arrived # NoOutcome

\* Spec with its scheduling: React runs the effect once the component has
\* mounted, the promise of the initial fetch settles, and a queued reaction runs
SpecLive ==
    Spec /\ WF_vars(Mount) /\ WF_vars(InitialPromiseSettle) /\ WF_vars(InitialSettle)
         /\ WF_vars(RefreshSettle)

\* the view right after the initial load stored a snapshot, before it renders it
InitDerive ==
    /\ \/ data \in NoTodaySnapshots
       \/ data \in OddSnapshots
       \/ data \in ThrowingSnapshots
       \/ \E bg \in Backgrounds, pos \in WindowStarts, ha \in RawValues \cup {Missing},
             ma \in SingleValues \cup {Missing}, ra \in SingleValues \cup {Missing} :
            data = TodaySnapshot(bg, pos, ha, ma, bg, ra, bg)
       \/ \E pos \in WindowStarts, ha \in {Missing, Str("no")},
             ma \in PairValues, mb \in PairValues, ra \in PairValues, rb \in PairValues :
            data = TodaySnapshot(Str("yes"), pos, ha, ma, mb, ra, rb)
    /\ loading = FALSE
    /\ error = Null
    /\ phase = "mounted"
    /\ aborted = FALSE
    /\ refreshActive = TRUE
    /\ requests = <<[kind |-> "initial", status |-> "fulfilled", reason |-> "none",
                      arrived |-> NoOutcome]>>
    /\ dataFrom = 1
    /\ settled = <<1>>
    /\ dirty = TRUE
    /\ today = getTodayData(Null)
    /\ hasToday = FALSE
    /\ groupHasOutages = GroupHasOutages(Null)
    /\ chartData = ChartData(Null)
    /\ outageLines = OutageLines(<<>>)
    /\ transitionTicks = TransitionTicks(<<>>)
    /\ banners = Banners(TRUE, Null, FALSE)

NextDerive == Render

SpecDerive == InitDerive /\ [][NextDerive]_vars

-----------------------------------------------------------------------------
(* Properties *)

Yes == Str("yes")
No == Str("no")
Maybe == Str("maybe")

\* the memos and banners are those of the current state
Rendered == ~dirty

\* today's raw value of hour slot h of group g, undefined when anything is absent
RawAt(g, h) == Prop(Prop(getTodayData(data), g), ToString(h))

\* the expansion table of the specification
ExpectedHalves(raw) ==
    CASE raw = Str("first") -> <<No, Yes>>
      [] raw = Str("second") -> <<Yes, No>>
      [] raw = Str("yes") -> <<Yes, Yes>>
      [] raw = Str("no") -> <<No, No>>
      [] OTHER -> <<Maybe, Maybe>>

DigitOf(c) == CHOOSE d \in 0..9 : DigitChars[d + 1] = c

\* the time, in half-hours, written as HH:MM at characters off + 1 .. off + 5 of a label
ParsedTime(label, off) ==
    2 * (10 * DigitOf(label[off + 1]) + DigitOf(label[off + 2]))
      + (10 * DigitOf(label[off + 4]) + DigitOf(label[off + 5])) \div 30

IntervalStart(label) == ParsedTime(label, 0)
IntervalEnd(label) == ParsedTime(label, 6)

\* a request went from pending to rejected in this step; abort tells which kind
RejectedStep(abort) ==
    \E i \in DOMAIN requests :
        /\ requests[i].status = "pending"
        /\ requests'[i].status = "rejected"
        /\ (requests'[i].reason = "AbortError") = abort

FulfilledRequests == {i \in DOMAIN requests : requests[i].status = "fulfilled"}

\* C1: once the view is torn down (the signal is aborted) the stored snapshot
\* never changes again: no fetch in flight at teardown applies its result.
C1_AbortedFetchNeverApplies == [][aborted => data' = data]_vars

\* C1 witness: torn down with a snapshot stored, the initial load and a refresh
\* both having been in flight at teardown and ended by the abort.
C1_Witness ==
    /\ aborted
    /\ phase = "unmounted"
    /\ dataFrom # 0
    /\ \E i, j \in DOMAIN requests :
         /\ i # j
         /\ requests[i].reason = "AbortError"
         /\ requests[j].reason = "AbortError"

\* C2: a stale response never overwrites a fresher one: the stored snapshot is
\* always the result of the latest-issued request among those that succeeded.
C2_StaleNeverOverwrites ==
    FulfilledRequests # {} =>
        \A i \in FulfilledRequests : i <= dataFrom

\* C3: expandHourToHalves is total and follows the table: for the raw value of
\* every group and hour slot of the snapshot (absent values included) the two
\* halves are those of the table, and both are among yes, no, maybe.
C3_ExpandTotal ==
    \A g \in Range(GROUPS), h \in 1..Hours :
        LET ab == expandHourToHalves(RawAt(g, h))
        IN  /\ ab = ExpectedHalves(RawAt(g, h))
            /\ ab[1] \in {Yes, No, Maybe}
            /\ ab[2] \in {Yes, No, Maybe}

\* C3 witness: a rendered snapshot holding a non-string raw value, a string
\* outside the five keys, a 'first' and a missing hour, the first of them
\* charted as maybe.
C3_Witness ==
    /\ Rendered
    /\ hasToday
    /\ \E h \in 1..Hours :
         /\ RawAt(GROUPS[1], h) \in {Num(1), Bool(TRUE), Str("NO")}
         /\ chartData[2 * h - 1].homeKey = Maybe
         /\ RawAt(GROUPS[2], h) = Str("first")
         /\ RawAt(GROUPS[3], h) = Undefined

\* the snapshot has a today entry: getTodayData returns a value, and one the
\* view takes for an entry (a truthy value)
HasTodayEntry(d) == ~IsThrow(getTodayData(d)) /\ ~IsFalsy(getTodayData(d))

\* C4: for a snapshot that has a today entry, chartData is 48 points with
\* t = 0, 0.5, ..., 23.5 in order; the points at t = h - 1 and t = h - 0.5 carry
\* the first and second expanded half of hour slot h of each group; overlapNo is
\* true exactly when the medic key and the reserve key are both 'no'.  This is
\* stated of the value the chartData memo computes from the snapshot, which is
\* the chartData of every completed render.
C4_ChartData ==
    HasTodayEntry(data) =>
        LET cd == ChartData(getTodayData(data))
        IN  /\ Rendered => chartData = cd
            /\ Len(cd) = 2 * Hours
            /\ \A i \in 1..(2 * Hours) : cd[i].t = i - 1
            /\ \A h \in 1..Hours :
                 LET a == cd[2 * h - 1]
                     b == cd[2 * h]
                     eh == ExpectedHalves(RawAt(GROUPS[1], h))
                     em == ExpectedHalves(RawAt(GROUPS[2], h))
                     er == ExpectedHalves(RawAt(GROUPS[3], h))
                 IN  /\ <<a.homeKey, a.medicKey, a.reserveKey>> = <<eh[1], em[1], er[1]>>
                     /\ <<b.homeKey, b.medicKey, b.reserveKey>> = <<eh[2], em[2], er[2]>>
            /\ \A i \in 1..(2 * Hours) :
                 cd[i].overlapNo <=> (cd[i].medicKey = No /\ cd[i].reserveKey = No)

\* C4 witness: a rendered chart with a group missing, an overlap point whose
\* home key is not 'no', and a point where home is 'no' without overlap.
C4_Witness ==
    /\ Rendered
    /\ Len(chartData) = 2 * Hours
    /\ \E i, j \in 1..(2 * Hours) :
         /\ chartData[i].overlapNo /\ chartData[i].homeKey # No
         /\ ~chartData[j].overlapNo /\ chartData[j].homeKey = No

IntervalLists ==
    {outageLines.home, outageLines.medic, outageLines.reserve, outageLines.overlap}

\* C5: every interval list of outageLines (the three groups' and the overlap's)
\* has 0 <= start < end <= 24 in each interval and each interval ending strictly
\* before the next one starts: sorted, non-overlapping and maximal.
C5_IntervalsWellFormed ==
    Rendered =>
        \A list \in IntervalLists :
            /\ \A k \in 1..Len(list) :
                 /\ 0 <= IntervalStart(list[k])
                 /\ IntervalStart(list[k]) < IntervalEnd(list[k])
                 /\ IntervalEnd(list[k]) <= 2 * Hours
            /\ \A k \in 1..(Len(list) - 1) :
                 IntervalEnd(list[k]) < IntervalStart(list[k + 1])

\* C5 witness: a rendered timeline where a group has two separate intervals,
\* one of them half an hour long, and the overlap has an interval.
C5_Witness ==
    /\ Rendered
    /\ Len(outageLines.medic) = 2
    /\ IntervalEnd(outageLines.medic[1]) = IntervalStart(outageLines.medic[1]) + 1
    /\ Len(outageLines.overlap) = 1

\* a tracked signal of row i differs from row i - 1
TrackedChange(i) ==
    \/ chartData[i].medicKey # chartData[i - 1].medicKey
    \/ chartData[i].reserveKey # chartData[i - 1].reserveKey
    \/ chartData[i].overlapNo # chartData[i - 1].overlapNo

\* C6: transitionTicks is strictly ascending and is exactly 0, 24 and the t of
\* every point but the first whose medicKey, reserveKey or overlapNo differs from
\* the preceding point; with no timeline it is [0, 24].
C6_TransitionTicks ==
    Rendered =>
        /\ \A k \in 1..(Len(transitionTicks) - 1) : transitionTicks[k] < transitionTicks[k + 1]
        /\ Range(transitionTicks) =
             {0, 2 * Hours} \cup {chartData[i].t : i \in {j \in 2..Len(chartData) : TrackedChange(j)}}
        /\ (Len(chartData) = 0 => transitionTicks = <<0, 2 * Hours>>)

\* C6 witness: a rendered timeline with a tick where only the reserve key
\* changes and a home change that is no tick.
C6_Witness ==
    /\ Rendered
    /\ \E i \in 2..Len(chartData) :
         /\ chartData[i].medicKey = chartData[i - 1].medicKey
         /\ chartData[i].overlapNo = chartData[i - 1].overlapNo
         /\ chartData[i].reserveKey # chartData[i - 1].reserveKey
         /\ chartData[i].t \in Range(transitionTicks)
    /\ \E i \in 2..Len(chartData) :
         /\ chartData[i].homeKey # chartData[i - 1].homeKey
         /\ chartData[i].t \notin Range(transitionTicks)

\* the flag of every group tells whether some hour slot 1..24 of the group has
\* a raw value that normalizes to no, first or second
GroupFlagsMatch ==
    \A g \in Range(GROUPS) :
        groupHasOutages[g] <=>
            \E h \in 1..Hours :
                normalizeStatusKey(RawAt(g, h)) \in {No, Str("first"), Str("second")}

\* C7 as stated: for every snapshot the view computes groupHasOutages without
\* any error, and groupHasOutages[group] is true exactly when some hour slot
\* 1..24 of the group has a raw value that normalizes to no, first or second; so
\* it is false for a missing group and for a snapshot without a usable today entry.
C7_GroupHasOutages ==
    /\ ~(phase = "crashed" /\ IsThrow(getTodayData(data)))
    /\ Rendered => GroupFlagsMatch

\* The part of C7 the code does satisfy: whenever the render completes, the
\* flags are those of the hour slots.
GroupFlagsWhenRendered == Rendered => GroupFlagsMatch

\* That part is reached: rendered with a today entry, one group missing (false),
\* one group whose only outage is the 'second' of hour 24 (true).
GroupFlagsReached ==
    /\ Rendered
    /\ hasToday
    /\ Prop(today, GROUPS[1]) = Undefined
    /\ ~groupHasOutages[GROUPS[1]]
    /\ groupHasOutages[GROUPS[2]]
    /\ RawAt(GROUPS[2], Hours) = Str("second")
    /\ \A h \in 1..(Hours - 1) : RawAt(GROUPS[2], h) = Yes

\* C8: a fetch that fails (network error or non-OK status) leaves the stored
\* snapshot as it was.
C8_FailureKeepsSnapshot == [][RejectedStep(FALSE) => data' = data]_vars

\* C8 witness: a snapshot with a today entry was stored, a refresh failed after
\* that, and the snapshot is still the stored one.
C8_Witness ==
    /\ Len(settled) >= 2
    /\ requests[settled[1]].status = "fulfilled"
    /\ dataFrom = settled[1]
    /\ getTodayData(data) # Null
    /\ \E q \in 2..Len(settled) :
         /\ requests[settled[q]].kind = "refresh"
         /\ requests[settled[q]].reason \in {"Error", "TypeError"}

\* C9: every fetch failure that is not an abort leaves the error state non-null.
C9_FailureSurfaced == [][RejectedStep(FALSE) => error' # Null]_vars

\* C10: a fetch ending by abort leaves the error state as it was.
C10_AbortKeepsError == [][RejectedStep(TRUE) => error' = error]_vars

\* C10 witness: the initial load ended by abort and no error is set.
C10_Witness ==
    /\ requests # <<>>
    /\ requests[1].reason = "AbortError"
    /\ error = Null
    /\ ~loading

\* a snapshot is stored and rendered, it has no usable today entry, and the
\* loading flag is off
StoredWithoutToday ==
    /\ Rendered
    /\ dataFrom # 0
    /\ getTodayData(data) = Null
    /\ ~loading

\* C11 as stated: whenever a stored snapshot has no usable today entry and no
\* load is in progress, the view shows the empty-state message and no error
\* message.
C11_EmptyStateAlways ==
    StoredWithoutToday => (banners.empty /\ ~banners.error)

\* The case of C11 the code does satisfy: with the error state null, a stored
\* snapshot without a usable today entry is rendered with the empty-state
\* message and no error message.
EmptyStateWithoutError ==
    (StoredWithoutToday /\ error = Null) => (banners.empty /\ ~banners.error)

\* That case is reached: a fetched object without fact.today is stored and rendered
\* with the empty-state banner and no other banner.
EmptyStateReached ==
    /\ StoredWithoutToday
    /\ error = Null
    /\ data # Null
    /\ getTodayTimestamp(data) = Undefined
    /\ banners = [loading |-> FALSE, error |-> FALSE, empty |-> TRUE]

\* each interval list of outageLines with the row field its predicate reads
SignalLists ==
    { <<"homeKey", outageLines.home>>, <<"medicKey", outageLines.medic>>,
      <<"reserveKey", outageLines.reserve>>, <<"overlapNo", outageLines.overlap>> }

\* the predicate of a list at row i: the key is exactly 'no', or overlapNo is true
SignalAt(field, i) ==
    IF field = "overlapNo" THEN chartData[i].overlapNo ELSE chartData[i][field] = No

\* time t lies in some interval [start, end) of the list
Covered(list, t) ==
    \E k \in 1..Len(list) : IntervalStart(list[k]) <= t /\ t < IntervalEnd(list[k])

\* the t of the first point after start where the predicate is false, or 24
RunEnd(field, start) ==
    LET off == {chartData[i].t : i \in {j \in 1..Len(chartData) :
                                          chartData[j].t > start /\ ~SignalAt(field, j)}}
    IN  IF off = {} THEN 2 * Hours
        ELSE CHOOSE t \in off : \A u \in off : t <= u

\* C12: for every half-hour point of the timeline, the point lies inside an
\* interval of a list exactly when the list's predicate holds there (the
\* group's key is 'no'; overlapNo is true), and every interval ends at the t of
\* the first following point where the predicate is false, or at 24.
C12_IntervalsMatchTimeline ==
    Rendered =>
        \A sl \in SignalLists :
            /\ \A i \in 1..Len(chartData) :
                 Covered(sl[2], chartData[i].t) <=> SignalAt(sl[1], i)
            /\ \A k \in 1..Len(sl[2]) :
                 IntervalEnd(sl[2][k]) = RunEnd(sl[1], IntervalStart(sl[2][k]))

\* C12 witness: a rendered 48-point timeline where medic has a half-hour
\* interval closed by a following point and a run that reaches the last point
\* and ends at 24, and the overlap has an interval while only one of the two
\* groups is 'no' at some other point.
C12_Witness ==
    /\ Rendered
    /\ Len(chartData) = 2 * Hours
    /\ Len(outageLines.medic) = 2
    /\ IntervalEnd(outageLines.medic[1]) = IntervalStart(outageLines.medic[1]) + 1
    /\ IntervalEnd(outageLines.medic[2]) = 2 * Hours
    /\ Len(outageLines.overlap) = 1
    /\ \E i \in 1..Len(chartData) :
         chartData[i].medicKey = No /\ chartData[i].reserveKey # No

\* the interval list of outageLines that belongs to the j-th group of GROUPS
GroupLines(j) ==
    IF j = 1 THEN outageLines.home
    ELSE IF j = 2 THEN outageLines.medic
    ELSE outageLines.reserve

\* C13: for each of the three groups, groupHasOutages[group] is true exactly
\* when the group's interval list in outageLines is non-empty.
C13_NoDrift ==
    Rendered =>
        \A j \in 1..3 : groupHasOutages[GROUPS[j]] <=> (Len(GroupLines(j)) > 0)

\* C13 witness: rendered with a today entry; one group's only outage is a
\* 'first' hour (flag true, one half-hour interval), another group has an
\* uncertain hour and no outage (flag false, no interval).
C13_Witness ==
    /\ Rendered
    /\ hasToday
    /\ \E h \in 1..Hours :
         /\ RawAt(GROUPS[2], h) = Str("first")
         /\ \A x \in (1..Hours) \ {h} : RawAt(GROUPS[2], x) = Yes
         /\ RawAt(GROUPS[3], h) = Maybe
    /\ groupHasOutages[GROUPS[2]]
    /\ Len(outageLines.medic) = 1
    /\ ~groupHasOutages[GROUPS[3]]
    /\ Len(outageLines.reserve) = 0

\* the initial fetch has been issued and the initial load has not resumed from its await
InitialPending == Len(requests) >= 1 /\ requests[1].status = "pending"

\* C14: loading is true from mount until the initial fetch settles; given that
\* the initial fetch settles, loading eventually becomes false and is false in
\* every later state, no refresh setting it back to true.
C14_LoadingLifecycle ==
    /\ [](InitialPending => loading)
    /\ [][~loading => ~loading']_vars
    /\ <>[](~loading)

\* C14 witness: the initial load finished first, a refresh then stored its
\* snapshot, another refresh is in flight, and loading is false.
C14_Witness ==
    /\ ~loading
    /\ Len(settled) >= 2
    /\ settled[1] = 1
    /\ requests[1].status # "pending"
    /\ dataFrom >= 2
    /\ \E i \in 2..Len(requests) : requests[i].status = "pending"

====
